---- MODULE Spec2Model ----
(***************************************************************************)
(* Listing collector of the Automated Data Collector:                      *)
(*   DataCollectorThread (core/data_collection.py) - the orchestrator,     *)
(*   DataProcessor       (core/data_collection.py) - one entry worker,     *)
(*   DataCollectionApp   (ui/main_window.py)       - the receiving side    *)
(*                        that runs the queued slots in the main thread.   *)
(*                                                                         *)
(* Threads: the run thread (DataCollectorThread.run), up to 4 pool threads *)
(* (QThreadPool) running DataProcessor.run, and the main thread, which     *)
(* owns the DataCollectorThread object and therefore executes its slots    *)
(* handle_data_ready / handle_entry_skipped / handle_worker_error from its *)
(* event queue (queued connections), in FIFO order.                        *)
(***************************************************************************)
EXTENDS Integers, Sequences, FiniteSets, TLC

\* ---------------------------------------------------------------- bounds
MaxCandidates == 2
MaxTarget == 2
MaxPlaces == 2
MaxHidden == 1
MaxFallbackCandidates == 1
MaxDeepCandidates == 6
MaxPageBudget == 3
MaxLinks == 2
MaxProxies == 3
MaxSerpPages == 2

\* ------------------------------------------------------ program constants
PoolWidth == 4
AttemptFactor == 5
ErrorLimit == 3

NA == "N/A"

\* ------------------------------------------------------------ text values
\* Names and addresses are short character sequences, so that cleaning and
\* key normalisation are computed and not assumed.
Lower(c) ==
    CASE c = "A" -> "a" [] c = "B" -> "b" [] c = "C" -> "c" [] c = "H" -> "h"
      [] c = "J" -> "j" [] c = "P" -> "p" [] c = "S" -> "s" [] c = "T" -> "t"
      [] OTHER -> c

LowerStr(s) == [i \in 1..Len(s) |-> Lower(s[i])]

RECURSIVE LStrip(_)
LStrip(s) == IF s # <<>> /\ Head(s) = " " THEN LStrip(Tail(s)) ELSE s

RECURSIVE RStrip(_)
RStrip(s) == IF s # <<>> /\ s[Len(s)] = " " THEN RStrip(SubSeq(s, 1, Len(s) - 1)) ELSE s

Strip(s) == RStrip(LStrip(s))

\* ' '.join(s.split()): runs of blanks collapse to one, none at the ends.
RECURSIVE JoinSplit(_)
JoinSplit(s) ==
    LET t == LStrip(s) IN
    IF t = <<>> THEN <<>>
    ELSE IF Len(t) >= 2 /\ t[1] # " " /\ t[2] = " "
         THEN LET r == JoinSplit(Tail(t)) IN
              IF r = <<>> THEN <<t[1]>> ELSE <<t[1], " ">> \o r
         ELSE <<t[1]>> \o JoinSplit(Tail(t))

\* ------------------------------------------------------------ detail pages
\* What a detail view yields to extract_data: the fields the run decides on.
PgAcme == [name |-> <<"A", "b">>, address |-> <<"1", " ", "a">>, website |-> "url", instagram |-> NA]
PgAcmeRaw == [name |-> <<" ", "a", " ", " ", "B">>, address |-> <<"1", " ", "A", " ">>, website |-> NA, instagram |-> NA]
PgBolt == [name |-> <<"b">>, address |-> <<"2">>, website |-> NA, instagram |-> "ig"]
Pages == {PgAcme, PgAcmeRaw, PgBolt}

\* Places returned by the structured API: with a website, without one, or
\* without usable details.
PlaceKinds == {"site", "nosite", "nodetails"}

\* The record built from the i-th place (lines 745-759): every place has its
\* own name, and the API never supplies an Instagram handle.
Letters == <<"a", "b", "c", "d", "e", "f">>

ApiRecord(kind, i) ==
    [name |-> <<"P", Letters[i]>>, address |-> <<"1">>,
     website |-> IF kind = "site" THEN "url" ELSE NA, instagram |-> NA]

Records == Pages \cup {ApiRecord(k, i) : k \in PlaceKinds, i \in 1..(MaxPlaces + 1)}

NoData == [name |-> <<>>, address |-> <<>>, website |-> NA, instagram |-> NA]

RECURSIVE SeqsUpTo(_, _)
SeqsUpTo(S, n) ==
    IF n = 0 THEN {<<>>}
    ELSE LET P == SeqsUpTo(S, n - 1) IN
         P \cup {Append(p, x) : p \in {q \in P : Len(q) = n - 1}, x \in S}

Min2(a, b) == IF a <= b THEN a ELSE b

\* ---------------------------------------------------- EmailExtractor: text
\* The characters page texts are written in.
LowerCase == {"a", "b", "c", "d", "e", "f", "h", "j", "m", "n", "o", "p", "r", "s", "t", "u"}
UpperCase == {"A", "B", "C", "H", "J", "P", "S", "T"}
Digits == {"1", "2"}
WordChars == LowerCase \cup UpperCase \cup Digits \cup {"_"}

\* The character classes of the patterns of lines 20-24 and 83.
LocalClass == LowerCase \cup UpperCase \cup Digits \cup {".", "_", "%", "+", "-"}
DomainClass == LowerCase \cup UpperCase \cup Digits \cup {".", "-"}
TldClass == LowerCase \cup UpperCase \cup {"|"}
ValidTldClass == LowerCase \cup UpperCase
SpaceClass == {" "}

\* Pattern elements: a greedy repetition of a class, one literal character,
\* the word boundary \b and the end of the string.
Rep(min, class) == [kind |-> "rep", min |-> min, class |-> class, ch |-> ""]
Lit(c) == [kind |-> "lit", min |-> 0, class |-> {}, ch |-> c]
WordBoundary == [kind |-> "b", min |-> 0, class |-> {}, ch |-> ""]
EndOfString == [kind |-> "end", min |-> 0, class |-> {}, ch |-> ""]

DomainTail == <<Rep(1, DomainClass), Lit("."), Rep(2, TldClass), WordBoundary>>

\* self.email_patterns, lines 19-25, in order.
email_patterns ==
    << <<WordBoundary, Rep(1, LocalClass), Lit("@")>> \o DomainTail,
       <<WordBoundary, Rep(1, LocalClass), Rep(0, SpaceClass), Lit("@"),
         Rep(0, SpaceClass)>> \o DomainTail,
       <<WordBoundary, Rep(1, LocalClass), Rep(0, SpaceClass), Lit("["),
         Rep(0, SpaceClass), Lit("@"), Rep(0, SpaceClass), Lit("]"),
         Rep(0, SpaceClass)>> \o DomainTail,
       <<WordBoundary, Rep(1, LocalClass), Lit("("), Lit("a"), Lit("t"),
         Lit(")")>> \o DomainTail,
       <<WordBoundary, Rep(1, LocalClass), Rep(0, SpaceClass), Lit("("), Lit("a"),
         Lit(")"), Rep(0, SpaceClass)>> \o DomainTail >>

\* The pattern of validate_email, line 83.
ValidPattern ==
    <<Rep(1, LocalClass), Lit("@"), Rep(1, DomainClass), Lit("."),
      Rep(2, ValidTldClass), EndOfString>>

IsWord(txt, i) == i \in 1..Len(txt) /\ txt[i] \in WordChars

AtBoundary(txt, i) == IsWord(txt, i - 1) # IsWord(txt, i)

\* Length of the longest run of characters of class that starts at i.
ClassRun(txt, i, class) ==
    Cardinality({n \in 1..(Len(txt) - i + 1) :
                    \A m \in 0..(n - 1) : txt[i + m] \in class})

\* The regular-expression engine on these patterns: the position after the
\* match of pat[k..] that starts at i, found by greedy repetition with
\* backtracking, or 0 when there is none.  Literals compare without case
\* (re.IGNORECASE, line 60).
RECURSIVE FirstEnd(_, _, _, _)
RECURSIVE TryRep(_, _, _, _, _)
FirstEnd(pat, txt, k, i) ==
    IF k > Len(pat) THEN i
    ELSE LET e == pat[k] IN
         CASE e.kind = "lit" ->
                IF i <= Len(txt) /\ Lower(txt[i]) = Lower(e.ch)
                THEN FirstEnd(pat, txt, k + 1, i + 1) ELSE 0
           [] e.kind = "b" ->
                IF AtBoundary(txt, i) THEN FirstEnd(pat, txt, k + 1, i) ELSE 0
           [] e.kind = "end" ->
                IF i = Len(txt) + 1 THEN FirstEnd(pat, txt, k + 1, i) ELSE 0
           [] OTHER -> TryRep(pat, txt, k, i, ClassRun(txt, i, e.class))

TryRep(pat, txt, k, i, n) ==
    IF n < pat[k].min THEN 0
    ELSE LET r == FirstEnd(pat, txt, k + 1, i + n) IN
         IF r # 0 THEN r ELSE TryRep(pat, txt, k, i, n - 1)

\* re.findall(pattern, text): the non-overlapping matches from left to right.
RECURSIVE FindAll(_, _, _)
FindAll(pat, txt, i) ==
    IF i > Len(txt) THEN <<>>
    ELSE LET e == FirstEnd(pat, txt, 1, i) IN
         IF e > i THEN <<SubSeq(txt, i, e - 1)>> \o FindAll(pat, txt, e)
         ELSE FindAll(pat, txt, i + 1)

\* str.replace(c, '') for one character, and str.replace(sub, r).
RemoveChar(str, c) == SelectSeq(str, LAMBDA x : x # c)

RECURSIVE ReplaceSub(_, _, _)
ReplaceSub(str, sub, r) ==
    IF Len(str) < Len(sub) THEN str
    ELSE IF SubSeq(str, 1, Len(sub)) = sub
         THEN r \o ReplaceSub(SubSeq(str, Len(sub) + 1, Len(str)), sub, r)
         ELSE <<Head(str)>> \o ReplaceSub(Tail(str), sub, r)

\* Line 63.
CleanEmail(email) ==
    ReplaceSub(ReplaceSub(RemoveChar(RemoveChar(RemoveChar(email, " "), "["), "]"),
                          <<"(", "a", "t", ")">>, <<"@">>),
               <<"(", "a", ")">>, <<"@">>)

\* validate_email, lines 81-84.
validate_email(email) == FirstEnd(ValidPattern, email, 1, 1) # 0

\* Lines 58-65: the addresses one page text adds to emails.
PageEmails(txt) ==
    {LowerStr(CleanEmail(FindAll(email_patterns[p], txt, 1)[n])) :
        <<p, n>> \in {<<q, m>> \in (DOMAIN email_patterns) \X (1..Len(txt)) :
                         /\ m <= Len(FindAll(email_patterns[q], txt, 1))
                         /\ validate_email(CleanEmail(FindAll(email_patterns[q], txt, 1)[m]))}}

\* The "N/A" sentinel as a text.
NAText == <<"N", "/", "A">>

\* self.contact_keywords, line 26.
contact_keywords ==
    {<<"c", "o", "n", "t", "a", "c", "t">>, <<"a", "b", "o", "u", "t">>,
     <<"t", "e", "a", "m">>, <<"s", "t", "a", "f", "f">>,
     <<"r", "e", "a", "c", "h">>, <<"c", "o", "n", "n", "e", "c", "t">>}

\* keyword in text
Contains(txt, sub) ==
    \E i \in 1..(Len(txt) - Len(sub) + 1) : SubSeq(txt, i, i + Len(sub) - 1) = sub

\* Line 88 if every link text were taken for a contact page.
is_contact_page_Any(txt) == txt = txt

\* is_contact_page, lines 86-88.
is_contact_page(txt) == \E keyword \in contact_keywords : Contains(txt, keyword)

\* ---------------------------------------------------- EmailExtractor: sites
Root == "u0"
URLs == {"u0", "u1", "u2"}

\* What a link's href can be besides an absolute URL of the site: a mailto:
\* address, or a relative reference that resolves to the page it is on.
MailTo == "mailto:a"
SelfRef == "."
Hrefs == URLs \cup {MailTo, SelfRef}

\* Link texts: "Contact" and "Home".
AnchorTexts == {<<"C", "o", "n", "t", "a", "c", "t">>, <<"H", "o", "m", "e">>}

SiteLinks == [href : Hrefs, text : AnchorTexts]

\* urljoin(current_url, href), line 71.
urljoin(current_url, href) == IF href = SelfRef THEN current_url ELSE href

\* What session.get(url) yields: a status, and for status 200 the page's
\* text and its <a href> elements in document order.
Page(status, txt, links) == [status |-> status, text |-> txt, links |-> links]

BlankPage == Page(404, <<>>, <<>>)

\* Sites for the crawl: the root links to up to n pages, the second
\* page to fewer, the third to none; any page but the root may fail to load.
CrawlSites(n) ==
    {[u \in URLs |-> CASE u = "u0" -> Page(200, <<>>, l0)
                       [] u = "u1" -> Page(s1, <<"j", "@", "s", ".", "c", "o">>, l1)
                       [] OTHER -> Page(s2, <<"a", "@", "s", ".", "c", "o">>, <<>>)] :
        l0 \in SeqsUpTo(SiteLinks, n), l1 \in SeqsUpTo(SiteLinks, n - 1),
        s1 \in {200, 404}, s2 \in {200, 404}}

\* Page texts that hold one address, written plainly or obfuscated, alone
\* or inside a sentence.
Locals == {<<"j">>, <<"J", "a">>}
Domains == {<<"s", ".", "c", "o">>, <<"s", ".", "c">>}
Separators ==
    {<<"@">>, <<" ", "@", " ">>, <<"[", "@", "]">>, <<" ", "[", "@", "]", " ">>,
     <<"(", "a", "t", ")">>, <<" ", "(", "a", "t", ")", " ">>, <<"(", "A", "T", ")">>,
     <<"(", "a", ")">>, <<" ", "a", "t", " ">>}
Prefixes == {<<>>, <<"t", "o", " ">>}
Suffixes == {<<>>, <<".">>}

\* "jane (at) shop.com"
ScenarioText ==
    <<"j", "a", "n", "e", " ", "(", "a", "t", ")", " ", "s", "h", "o", "p", ".", "c", "o", "m">>

HarvestTexts ==
    {pre \o l \o sep \o d \o post :
        pre \in Prefixes, l \in Locals, sep \in Separators, d \in Domains, post \in Suffixes}
    \cup {ScenarioText}

HarvestSites ==
    {[u \in URLs |-> IF u = Root THEN Page(200, txt, <<>>) ELSE BlankPage] : txt \in HarvestTexts}

VARIABLES
    \* run configuration
    num_entries, skip_missing_social, api_key, places, source,
    \* DataCollectorThread fields
    is_running, is_paused, internet_connected,
    collected_count, skipped_count, processed_count, max_to_process,
    \* locals of DataCollectorThread.run / collect_via_api
    pc, consecutive_errors, batch_size, api_i, api_collected,
    \* the browser all workers share; the calls of load_more_results made by
    \* the loop cycle in progress
    visible, driver_view, load_more_calls,
    \* DataProcessor instances, by result index
    wpc,
    \* main thread event queue; signals emitted to the caller (data_collected:
    \* how many times each record was emitted)
    queue, data_collected, entry_skipped, logged_errors, terminal,
    \* DataCollectionApp fields
    unique_entries, collected_data, connection_label, collector_thread,
    \* the counts named by the message shown when a run has ended
    terminal_status,
    \* EmailExtractor.extract_emails: the site it is called on, its argument
    \* max_pages, its locals, the URLs requested so far and its return value
    site, max_pages, epc, pages_left, urls_to_visit, visited_urls, emails,
    requested, frontier_texts, extracted_emails,
    \* whether the Tor module is installed; ProxyManager fields, and the
    \* outcome of the last get_next_proxy
    tor_available, proxies, current_proxy_index, next_proxy,
    \* one DataProcessor.run in detail: its position, entry_info, the loop
    \* variable attempt, the clicks made so far, the fields whose extraction
    \* raised, the value of data, and the signals emitted
    dp_pc, dp_entry_info, dp_attempt, dp_clicks, dp_field_errors, dp_data, dp_signals,
    \* WebScrapeWorker: the position of run, the events _stop and _paused, the
    \* result-page and site tasks on the executors, all_links, and the
    \* terminal signals emitted
    web_pc, web_stop, web_paused, serp_pc, all_links, site_pc, web_terminal

cfgVars == <<num_entries, skip_missing_social, api_key, places, source>>
threadVars == <<is_running, is_paused, internet_connected, collected_count,
                skipped_count, processed_count, max_to_process>>
runVars == <<pc, consecutive_errors, batch_size, api_i, api_collected>>
browserVars == <<visible, driver_view, load_more_calls>>
outVars == <<data_collected, entry_skipped, logged_errors, terminal>>
uiVars == <<unique_entries, collected_data, connection_label, collector_thread,
            terminal_status>>
emailVars == <<site, max_pages, epc, pages_left, urls_to_visit, visited_urls, emails,
               requested, frontier_texts, extracted_emails>>
proxyVars == <<tor_available, proxies, current_proxy_index, next_proxy>>
processorVars == <<dp_pc, dp_entry_info, dp_attempt, dp_clicks, dp_field_errors,
                   dp_data, dp_signals>>
webVars == <<web_pc, web_stop, web_paused, serp_pc, all_links, site_pc, web_terminal>>
utilVars == <<emailVars, proxyVars, processorVars, webVars>>
collectorVars == <<cfgVars, threadVars, runVars, browserVars, wpc, queue, outVars, uiVars>>
vars == <<collectorVars, utilVars>>

Msg(kind, data) == [kind |-> kind, data |-> data]

\* A count a message does not name.
Absent == -1

StatusCounts(collected, processed, skipped) ==
    [collected |-> collected, processed |-> processed, skipped |-> skipped]

\* ---------------------------------------------------------------- Init
\* A run with an API key: the places the API returns, and the browser source
\* the run falls back to when it returns none.
ConfigApi ==
    /\ num_entries \in 1..MaxTarget
    /\ skip_missing_social \in BOOLEAN
    /\ api_key = TRUE
    /\ places \in SeqsUpTo(PlaceKinds, MaxPlaces)
    /\ source \in (IF places # <<>> THEN {<<>>} ELSE SeqsUpTo(Pages, MaxFallbackCandidates))
    /\ visible \in {v \in 0..Len(source) : Len(source) - v <= MaxHidden}

\* A run without an API key over any short result list, of which at most
\* MaxHidden entries are listed only after more results are loaded.
ConfigBrowser ==
    /\ num_entries \in 1..MaxTarget
    /\ skip_missing_social \in BOOLEAN
    /\ api_key = FALSE
    /\ places = <<>>
    /\ source \in SeqsUpTo(Pages, MaxCandidates)
    /\ visible \in {v \in 0..Len(source) : Len(source) - v <= MaxHidden}

\* A run for one entry over a long list of incomplete candidates, which can
\* use up the attempt budget.
ConfigDeep ==
    /\ num_entries = 1
    /\ skip_missing_social = TRUE
    /\ api_key = FALSE
    /\ places = <<>>
    /\ source \in {[i \in 1..k |-> PgAcmeRaw] : k \in (AttemptFactor + 1)..MaxDeepCandidates}
    /\ visible = Len(source)

\* A run for one entry over at most one candidate.
ConfigSmall ==
    /\ num_entries = 1
    /\ skip_missing_social \in BOOLEAN
    /\ api_key \in BOOLEAN
    /\ places \in (IF api_key THEN SeqsUpTo(PlaceKinds, 1) ELSE {<<>>})
    /\ source \in (IF places # <<>> THEN {<<>>} ELSE SeqsUpTo(Pages, 1))
    /\ visible \in 0..Len(source)

\* DataCollectorThread.__init__ (lines 412-444) and the state of the
\* application when start_collection (lines 595-665) has started the thread.
InitState ==
    /\ is_running = TRUE
    /\ is_paused = FALSE
    /\ internet_connected = TRUE
    /\ collected_count = 0
    /\ skipped_count = 0
    /\ processed_count = 0
    /\ max_to_process = num_entries * AttemptFactor
    /\ pc = "init"
    /\ consecutive_errors = 0
    /\ batch_size = 0
    /\ api_i = 0
    /\ api_collected = 0
    /\ driver_view = 0
    /\ load_more_calls = 0
    /\ wpc = [i \in 1..Len(source) |-> "none"]
    /\ queue = <<>>
    /\ data_collected = [d \in Records |-> 0]
    /\ entry_skipped = 0
    /\ logged_errors = 0
    /\ terminal = <<>>
    /\ unique_entries = {}
    /\ collected_data = <<>>
    /\ connection_label = "Connected"
    /\ collector_thread = TRUE
    /\ terminal_status = StatusCounts(Absent, Absent, Absent)

\* EmailExtractor.extract_emails is not being called.
EmailIdle ==
    /\ site = [u \in URLs |-> BlankPage]
    /\ max_pages = 0
    /\ epc = "idle"
    /\ pages_left = 0
    /\ urls_to_visit = <<>>
    /\ visited_urls = {}
    /\ emails = {}
    /\ requested = <<>>
    /\ frontier_texts = {}
    /\ extracted_emails = {}

\* ProxyManager.__init__, lines 60-62.
ProxyFields ==
    /\ proxies = <<>>
    /\ current_proxy_index = 0
    /\ next_proxy = "none"

\* A ProxyManager that is constructed and never used afterwards.
ProxyInit ==
    /\ tor_available = FALSE
    /\ proxies = <<>>
    /\ current_proxy_index = 0
    /\ next_proxy = "none"

\* No DataProcessor is followed in detail.
ProcessorIdle ==
    /\ dp_pc = "idle"
    /\ dp_entry_info = [name |-> "Unknown", address |-> NA]
    /\ dp_attempt = 0
    /\ dp_clicks = <<>>
    /\ dp_field_errors = {}
    /\ dp_data = "unset"
    /\ dp_signals = <<>>

\* WebScrapeWorker.__init__, lines 30-39; no web run has been started.
WebFields ==
    /\ web_stop = FALSE
    /\ web_paused = FALSE
    /\ serp_pc = <<>>
    /\ all_links = {}
    /\ site_pc = <<>>
    /\ web_terminal = <<>>

WebIdle == web_pc = "idle" /\ WebFields

Init == (ConfigApi \/ ConfigBrowser) /\ InitState /\ EmailIdle /\ ProxyInit /\ ProcessorIdle /\ WebIdle

InitDeep == (ConfigApi \/ ConfigDeep) /\ InitState /\ EmailIdle /\ ProxyInit /\ ProcessorIdle /\ WebIdle

InitSmall == ConfigSmall /\ InitState /\ EmailIdle /\ ProxyInit /\ ProcessorIdle /\ WebIdle

\* No collection run takes part: the thread is constructed and not started.
NoRun ==
    /\ num_entries = 1
    /\ skip_missing_social = FALSE
    /\ api_key = FALSE
    /\ places = <<>>
    /\ source = <<>>
    /\ visible = 0
    /\ InitState

\* Entry of extract_emails(url, max_pages), lines 34-38, with url the root.
extract_emails_begin ==
    /\ epc = "loop"
    /\ pages_left = max_pages
    /\ urls_to_visit = <<Root>>
    /\ visited_urls = {}
    /\ emails = {}
    /\ requested = <<>>
    /\ frontier_texts = {}
    /\ extracted_emails = {}

\* A call on a page that holds one address.
InitHarvest ==
    /\ NoRun /\ ProxyInit /\ ProcessorIdle /\ WebIdle
    /\ site \in HarvestSites
    /\ max_pages \in 1..2
    /\ extract_emails_begin

\* A call on a site of linked pages.
InitCrawl ==
    /\ NoRun /\ ProxyInit /\ ProcessorIdle /\ WebIdle
    /\ site \in CrawlSites(MaxLinks)
    /\ max_pages \in 0..MaxPageBudget
    /\ extract_emails_begin

\* ------------------------------------------------- DataCollectorThread.run
Emit(m) == queue' = Append(queue, m)

\* Lines 504-517 if the browser source were started whatever the key.
run_start_BrowserFirst ==
    /\ pc = "init"
    /\ pc' = "setup"
    /\ UNCHANGED <<utilVars, cfgVars, threadVars, consecutive_errors, batch_size,
                   api_i, api_collected, browserVars, wpc, queue, outVars, uiVars>>

\* Lines 504-517: the structured API is tried first when a key is configured.
run_start ==
    /\ pc = "init"
    /\ pc' = IF api_key THEN "api" ELSE "setup"
    /\ UNCHANGED <<utilVars, cfgVars, threadVars, consecutive_errors, batch_size,
                   api_i, api_collected, browserVars, wpc, queue, outVars, uiVars>>

\* collect_via_api, lines 720-731: no places means "return False" and the
\* run falls back to the browser source.
collect_via_api_begin ==
    /\ pc = "api"
    /\ pc' = IF places = <<>> THEN "setup" ELSE "api_loop"
    /\ api_i' = 0
    /\ api_collected' = 0
    /\ UNCHANGED <<utilVars, cfgVars, threadVars, consecutive_errors, batch_size,
                   browserVars, wpc, queue, outVars, uiVars>>

ApiSkipTest(data) ==
    skip_missing_social /\ data.website = NA /\ data.instagram = NA

\* One iteration of "for place in places" (lines 732-786).
collect_via_api_step ==
    /\ pc = "api_loop"
    /\ api_i < Len(places)
    /\ is_running /\ api_collected < num_entries
    /\ api_i' = api_i + 1
    /\ LET kind == places[api_i + 1]
           data == ApiRecord(kind, api_i + 1) IN
       IF kind = "nodetails"
       THEN UNCHANGED <<skipped_count, api_collected, queue, data_collected, entry_skipped>>
       ELSE IF ApiSkipTest(data)
            THEN /\ skipped_count' = skipped_count + 1
                 /\ entry_skipped' = entry_skipped + 1
                 /\ UNCHANGED <<api_collected, queue, data_collected>>
            ELSE /\ Emit(Msg("real_time_update", data))
                 /\ data_collected' = [data_collected EXCEPT ![data] = @ + 1]
                 /\ api_collected' = api_collected + 1
                 /\ UNCHANGED <<skipped_count, entry_skipped>>
    /\ UNCHANGED <<utilVars, cfgVars, is_running, is_paused, internet_connected, collected_count,
                   processed_count, max_to_process, pc, consecutive_errors,
                   batch_size, browserVars, wpc, logged_errors, terminal, uiVars>>

\* Loop exit of collect_via_api ("return True") and lines 510-513.
collect_via_api_end ==
    /\ pc = "api_loop"
    /\ api_i >= Len(places) \/ ~is_running \/ api_collected >= num_entries
    /\ pc' = "done"
    /\ terminal' = Append(terminal, "finished")
    /\ Emit(Msg("finished", NoData))
    /\ UNCHANGED <<utilVars, cfgVars, threadVars, consecutive_errors, batch_size,
                   api_i, api_collected, browserVars, wpc, data_collected,
                   entry_skipped, logged_errors, uiVars>>

\* Lines 516-578: driver setup, navigation and the result-locating
\* selectors.  found = one selector located results.
run_setup ==
    /\ pc = "setup"
    /\ \E found \in BOOLEAN :
         IF found
         THEN /\ pc' = "loop"
              /\ consecutive_errors' = 0
              /\ UNCHANGED <<queue, terminal>>
         ELSE /\ pc' = "done"
              /\ terminal' = Append(terminal, "error_occurred")
              /\ Emit(Msg("error_occurred", NoData))
              /\ UNCHANGED consecutive_errors
    /\ UNCHANGED <<utilVars, cfgVars, threadVars, batch_size, api_i, api_collected,
                   browserVars, wpc, data_collected, entry_skipped, logged_errors,
                   uiVars>>

\* The while condition of line 581.
LoopCondition ==
    /\ collected_count < num_entries
    /\ processed_count < max_to_process
    /\ is_running
    /\ consecutive_errors < ErrorLimit

\* Lines 581-585 without the connectivity test of line 583.
run_loop_check_NoConnectivityTest ==
    /\ pc = "loop"
    /\ pc' = IF ~LoopCondition THEN "finish" ELSE "body"
    /\ UNCHANGED <<utilVars, cfgVars, threadVars, consecutive_errors, batch_size, api_i,
                   api_collected, browserVars, wpc, queue, outVars, uiVars>>

\* Lines 581-585: the loop test and the connectivity test that follows it.
run_loop_check ==
    /\ pc = "loop"
    /\ IF ~LoopCondition
       THEN pc' = "finish" /\ UNCHANGED is_paused
       ELSE IF ~internet_connected
            THEN pc' = "paused" /\ is_paused' = TRUE
            ELSE pc' = "body" /\ UNCHANGED is_paused
    /\ UNCHANGED <<utilVars, cfgVars, is_running, internet_connected, collected_count,
                   skipped_count, processed_count, max_to_process,
                   consecutive_errors, batch_size, api_i, api_collected,
                   browserVars, wpc, queue, outVars, uiVars>>

\* Lines 588-596: one poll of the wait loop; it is left when connectivity is
\* back or the run was stopped.
run_pause_poll ==
    /\ pc = "paused"
    /\ internet_connected \/ ~is_running
    /\ IF ~is_running
       THEN pc' = "finish" /\ UNCHANGED is_paused
       ELSE pc' = "loop" /\ is_paused' = FALSE
    /\ UNCHANGED <<utilVars, cfgVars, is_running, internet_connected, collected_count,
                   skipped_count, processed_count, max_to_process,
                   consecutive_errors, batch_size, api_i, api_collected,
                   browserVars, wpc, queue, outVars, uiVars>>

\* Line 619 without its third term.
BatchSize_NoBudget(len) ==
    Min2(PoolWidth, len - processed_count)

\* Line 619.
BatchSize(len) ==
    Min2(PoolWidth, Min2(len - processed_count, max_to_process - processed_count))

\* Lines 626-644 if only the first worker of the batch were started.
StartWorkers_FirstOnly(n) ==
    wpc' = [i \in DOMAIN wpc |->
              IF i = processed_count + 1 /\ n >= 1 THEN "queued" ELSE wpc[i]]

\* Lines 626-644: one DataProcessor per index of the batch, all started.
StartWorkers(n) ==
    wpc' = [i \in DOMAIN wpc |->
              IF i > processed_count /\ i <= processed_count + n THEN "queued" ELSE wpc[i]]

\* Lines 598-644 if load_more_results were called a second time when the
\* first call brought no new result.
run_body_AdvancesTwice ==
    /\ pc = "body"
    /\ \E more \in BOOLEAN, grown \in visible..Len(source) :
         LET needMore == processed_count >= visible
             len == IF needMore /\ more THEN grown ELSE visible IN
         /\ (~needMore) => (grown = visible /\ more)
         /\ (needMore /\ ~more) => grown = visible
         /\ visible' = len
         /\ load_more_calls' = (IF needMore THEN (IF processed_count >= len THEN 2 ELSE 1) ELSE 0)
         /\ IF (needMore /\ ~more) \/ processed_count >= len \/ BatchSize(len) <= 0
            THEN /\ pc' = "finish"
                 /\ UNCHANGED <<batch_size, wpc>>
            ELSE /\ pc' = "wait"
                 /\ batch_size' = BatchSize(len)
                 /\ StartWorkers(BatchSize(len))
    /\ UNCHANGED <<utilVars, cfgVars, threadVars, consecutive_errors, api_i, api_collected,
                   driver_view, queue, outVars, uiVars>>

\* Lines 598-644 without an exception: list the results, load more when all
\* listed ones are processed, size the batch and start its workers.
run_body ==
    /\ pc = "body"
    /\ \E more \in BOOLEAN, grown \in visible..Len(source) :
         LET needMore == processed_count >= visible
             len == IF needMore /\ more THEN grown ELSE visible IN
         /\ (~needMore) => (grown = visible /\ more)
         /\ (needMore /\ ~more) => grown = visible
         /\ visible' = len
         /\ load_more_calls' = (IF needMore THEN 1 ELSE 0)
         /\ IF (needMore /\ ~more) \/ processed_count >= len \/ BatchSize(len) <= 0
            THEN /\ pc' = "finish"
                 /\ UNCHANGED <<batch_size, wpc>>
            ELSE /\ pc' = "wait"
                 /\ batch_size' = BatchSize(len)
                 /\ StartWorkers(BatchSize(len))
    /\ UNCHANGED <<utilVars, cfgVars, threadVars, consecutive_errors, api_i, api_collected,
                   driver_view, queue, outVars, uiVars>>

\* Lines 661-664 if the failed cycle were counted as processed.
run_body_error_CountsBatch ==
    /\ pc = "body"
    /\ consecutive_errors' = consecutive_errors + 1
    /\ processed_count' = processed_count + 1
    /\ pc' = "loop"
    /\ load_more_calls' = 0
    /\ UNCHANGED <<utilVars, cfgVars, is_running, is_paused, internet_connected, collected_count,
                   skipped_count, max_to_process, batch_size, api_i, api_collected,
                   visible, driver_view, wpc, queue, outVars, uiVars>>

\* Lines 661-664 if the failed cycle were not counted.
run_body_error_NotCounted ==
    /\ pc = "body"
    /\ \E grown \in visible..Len(source), called \in BOOLEAN :
         /\ (processed_count < visible) => ~called
         /\ (~called) => grown = visible
         /\ visible' = grown
         /\ load_more_calls' = (IF called THEN 1 ELSE 0)
    /\ consecutive_errors' = consecutive_errors
    /\ pc' = "loop"
    /\ UNCHANGED <<utilVars, cfgVars, threadVars, batch_size, api_i, api_collected,
                   driver_view, wpc, queue, outVars, uiVars>>

\* Lines 661-664: an exception raised by a driver call of the try block
\* (find_elements before or after load_more_results).
run_body_error ==
    /\ pc = "body"
    /\ \E grown \in visible..Len(source), called \in BOOLEAN :
         /\ (processed_count < visible) => ~called
         /\ (~called) => grown = visible
         /\ visible' = grown
         /\ load_more_calls' = (IF called THEN 1 ELSE 0)
    /\ consecutive_errors' = consecutive_errors + 1
    /\ pc' = "loop"
    /\ UNCHANGED <<utilVars, cfgVars, threadVars, batch_size, api_i, api_collected,
                   driver_view, wpc, queue, outVars, uiVars>>

\* Lines 647-651 if one candidate were counted whatever the batch size.
run_wait_CountsOne ==
    /\ pc = "wait"
    /\ processed_count' = processed_count + 1
    /\ batch_size' = 0
    /\ pc' = "loop"
    /\ load_more_calls' = 0
    /\ UNCHANGED <<utilVars, cfgVars, is_running, is_paused, internet_connected, collected_count,
                   skipped_count, max_to_process, consecutive_errors,
                   api_i, api_collected, visible, driver_view, wpc, queue, outVars, uiVars>>

\* Lines 647-651: waitForDone(30000) returns when the pool is idle or when
\* the 30 seconds are over, and the batch is counted as processed.
run_wait ==
    /\ pc = "wait"
    /\ processed_count' = processed_count + batch_size
    /\ batch_size' = 0
    /\ pc' = "loop"
    /\ load_more_calls' = 0
    /\ UNCHANGED <<utilVars, cfgVars, is_running, is_paused, internet_connected, collected_count,
                   skipped_count, max_to_process, consecutive_errors,
                   api_i, api_collected, visible, driver_view, wpc, queue, outVars, uiVars>>

\* Lines 666-672.
run_finish ==
    /\ pc = "finish"
    /\ pc' = "done"
    /\ terminal' = Append(terminal, "finished")
    /\ Emit(Msg("finished", NoData))
    /\ load_more_calls' = 0
    /\ UNCHANGED <<utilVars, cfgVars, threadVars, consecutive_errors, batch_size,
                   api_i, api_collected, visible, driver_view, wpc, data_collected,
                   entry_skipped, logged_errors, uiVars>>

\* ------------------------------------------------------- DataProcessor.run
\* A pool thread is free when fewer than 4 runnables are executing.
PoolHasFreeThread == Cardinality({j \in DOMAIN wpc : wpc[j] = "clicked"}) < PoolWidth

\* Lines 45-70: the interaction.  It either activates the candidate, which
\* makes the shared browser show this candidate's detail view, or fails on
\* every attempt, which reaches the handler of line 96.
worker_click(i) ==
    /\ wpc[i] = "queued"
    /\ PoolHasFreeThread
    /\ \E ok \in BOOLEAN :
         IF ok
         THEN /\ driver_view' = i
              /\ wpc' = [wpc EXCEPT ![i] = "clicked"]
              /\ UNCHANGED queue
         ELSE /\ wpc' = [wpc EXCEPT ![i] = "done"]
              /\ Emit(Msg("error", NoData))
              /\ UNCHANGED driver_view
    /\ UNCHANGED <<utilVars, cfgVars, threadVars, runVars, visible, load_more_calls,
                   outVars, uiVars>>

\* Line 88 with the flag read the wrong way round.
SkipTest_FlagInverted(data) ==
    ~skip_missing_social /\ data.website = NA /\ data.instagram = NA

\* Line 88.
SkipTest(data) ==
    skip_missing_social /\ data.website = NA /\ data.instagram = NA

\* Lines 72-97: extract_data reads whatever detail view the shared browser
\* shows at that moment; a falsy result or an exception is reported as an
\* error, an incomplete record as skipped, anything else as data_ready.
worker_extract(i) ==
    /\ wpc[i] = "clicked"
    /\ wpc' = [wpc EXCEPT ![i] = "done"]
    /\ \E extracted \in BOOLEAN :
         LET data == source[driver_view] IN
         IF ~extracted
         THEN Emit(Msg("error", NoData))
         ELSE IF SkipTest(data)
              THEN Emit(Msg("skipped", data))
              ELSE Emit(Msg("data_ready", data))
    /\ UNCHANGED <<utilVars, cfgVars, threadVars, runVars, browserVars, outVars, uiVars>>

\* -------------------------------------------------------- DataCollectionApp
\* clean_data_entry, lines 718-783 (the fields the model carries).
clean_data_entry(data) ==
    [name |-> JoinSplit(Strip(data.name)),
     address |-> JoinSplit(Strip(data.address)),
     website |-> data.website,
     instagram |-> data.instagram]

\* Lines 691-694.
UniqueKey(cleaned) == <<LowerStr(Strip(cleaned.name)), LowerStr(Strip(cleaned.address))>>

\* add_real_time_data, lines 686-716.
add_real_time_data(data) ==
    LET cleaned == clean_data_entry(data)
        unique_key == UniqueKey(cleaned) IN
    IF unique_key \in unique_entries
    THEN UNCHANGED <<unique_entries, collected_data>>
    ELSE /\ unique_entries' = unique_entries \cup {unique_key}
         /\ collected_data' = Append(collected_data, cleaned)

\* handle_data_ready, lines 690-704, run by the main thread; real_time_update
\* reaches add_real_time_data by a direct call.
handle_data_ready(data) ==
    /\ add_real_time_data(data)
    /\ data_collected' = [data_collected EXCEPT ![data] = @ + 1]
    /\ collected_count' = collected_count + 1
    /\ UNCHANGED <<skipped_count, entry_skipped, logged_errors, collector_thread,
                   terminal_status>>

\* handle_entry_skipped, lines 710-713.
handle_entry_skipped ==
    /\ skipped_count' = skipped_count + 1
    /\ entry_skipped' = entry_skipped + 1
    /\ UNCHANGED <<collected_count, data_collected, logged_errors, unique_entries,
                   collected_data, collector_thread, terminal_status>>

\* Lines 706-708 if the message were dropped.
handle_worker_error_NotLogged ==
    /\ UNCHANGED logged_errors
    /\ UNCHANGED <<collected_count, skipped_count, data_collected, entry_skipped,
                   unique_entries, collected_data, collector_thread, terminal_status>>

\* handle_worker_error, lines 706-708: the message goes to the status log.
handle_worker_error ==
    /\ logged_errors' = logged_errors + 1
    /\ UNCHANGED <<collected_count, skipped_count, data_collected, entry_skipped,
                   unique_entries, collected_data, collector_thread, terminal_status>>

\* collection_finished, lines 837-855: the message names the number of
\* stored entries and, when there is one, the number of skipped entries.
collection_finished ==
    /\ terminal_status' =
         StatusCounts(Len(collected_data), Absent,
                      IF collector_thread /\ skipped_count > 0 THEN skipped_count ELSE Absent)
    /\ collector_thread' = FALSE
    /\ UNCHANGED <<collected_count, skipped_count, data_collected, entry_skipped,
                   logged_errors, unique_entries, collected_data>>

\* collection_error, lines 857-882: the message is the error text.
collection_error ==
    /\ terminal_status' = StatusCounts(Absent, Absent, Absent)
    /\ collector_thread' = FALSE
    /\ UNCHANGED <<collected_count, skipped_count, data_collected, entry_skipped,
                   logged_errors, unique_entries, collected_data>>

\* The main thread takes the next queued call from its event queue.
main_dispatch ==
    /\ queue # <<>>
    /\ queue' = Tail(queue)
    /\ LET m == Head(queue) IN
       CASE m.kind = "data_ready" -> handle_data_ready(m.data)
         [] m.kind = "skipped" -> handle_entry_skipped
         [] m.kind = "error" -> handle_worker_error
         [] m.kind = "real_time_update" ->
              /\ add_real_time_data(m.data)
              /\ UNCHANGED <<collected_count, skipped_count, data_collected,
                             entry_skipped, logged_errors, collector_thread,
                             terminal_status>>
         [] m.kind = "error_occurred" -> collection_error
         [] OTHER -> collection_finished
    /\ UNCHANGED <<utilVars, cfgVars, is_running, is_paused, internet_connected, processed_count,
                   max_to_process, runVars, browserVars, wpc, terminal, connection_label>>

\* set_connection_status, lines 715-718.  The signal it emits is connected
\* back to handle_connection_status_change, which re-enters with the same
\* value and assigns the same flag again.
set_connection_status(is_connected) ==
    internet_connected' = is_connected

\* handle_connection_status_change, lines 329-348, on a signal of the
\* InternetConnectionChecker: the threads are notified in the else branch.
handle_connection_status_change(is_connected) ==
    /\ connection_label' = IF is_connected THEN "Connected" ELSE "Disconnected"
    /\ IF ~is_connected /\ collector_thread
       THEN set_connection_status(is_connected)
       ELSE UNCHANGED internet_connected
    /\ UNCHANGED <<utilVars, cfgVars, is_running, is_paused, collected_count, skipped_count,
                   processed_count, max_to_process, runVars, browserVars, wpc, queue,
                   outVars, unique_entries, collected_data, collector_thread,
                   terminal_status>>

connection_up == handle_connection_status_change(TRUE) /\ connection_label = "Disconnected"

connection_down == handle_connection_status_change(FALSE) /\ connection_label = "Connected"

\* stop, lines 809-811, reached from stop_collection (667-671) while the
\* thread is running.
stop ==
    /\ collector_thread /\ pc # "done"
    /\ is_running
    /\ is_running' = FALSE
    /\ UNCHANGED <<utilVars, cfgVars, is_paused, internet_connected, collected_count,
                   skipped_count, processed_count, max_to_process, runVars,
                   browserVars, wpc, queue, outVars, uiVars>>

\* ------------------------------------------- EmailExtractor.extract_emails
\* Line 70-72: the links of a page that go to the frontier.
FollowLink(link, current_url, visited) ==
    /\ link.href # MailTo
    /\ is_contact_page(LowerStr(link.text))
    /\ urljoin(current_url, link.href) \notin visited

\* One iteration of "for _ in range(max_pages)" with a URL to visit, lines
\* 40-77.  A request that raises is handled as a status other than 200 is
\* (lines 75-77).
extract_emails_iteration ==
    /\ epc = "loop"
    /\ pages_left > 0 /\ urls_to_visit # <<>>
    /\ pages_left' = pages_left - 1
    /\ LET current_url == Head(urls_to_visit)
           page == site[current_url]
           visited == visited_urls \cup {current_url}
           followed == SelectSeq(page.links, LAMBDA l : FollowLink(l, current_url, visited))
       IN IF current_url \in visited_urls
          THEN /\ urls_to_visit' = Tail(urls_to_visit)
               /\ UNCHANGED <<visited_urls, emails, requested, frontier_texts>>
          ELSE /\ visited_urls' = visited
               /\ requested' = Append(requested, current_url)
               /\ IF page.status # 200
                  THEN /\ urls_to_visit' = Tail(urls_to_visit)
                       /\ UNCHANGED <<emails, frontier_texts>>
                  ELSE /\ emails' = emails \cup PageEmails(page.text)
                       /\ urls_to_visit' =
                            Tail(urls_to_visit) \o
                            [n \in 1..Len(followed) |-> urljoin(current_url, followed[n].href)]
                       /\ frontier_texts' =
                            frontier_texts \cup {followed[n].text : n \in 1..Len(followed)}
    /\ UNCHANGED <<collectorVars, proxyVars, processorVars, webVars,
                   site, max_pages, epc, extracted_emails>>

\* Lines 41-42 and 79: the loop is over, the addresses are returned.
extract_emails_return ==
    /\ epc = "loop"
    /\ pages_left = 0 \/ urls_to_visit = <<>>
    /\ epc' = "returned"
    /\ extracted_emails' = IF emails # {} THEN emails ELSE {NAText}
    /\ UNCHANGED <<collectorVars, proxyVars, processorVars, webVars,
                   site, max_pages, pages_left, urls_to_visit,
                   visited_urls, emails, requested, frontier_texts>>

NextEmail ==
    \/ extract_emails_iteration
    \/ extract_emails_return

SpecHarvest == InitHarvest /\ [][NextEmail]_vars

SpecCrawl == InitCrawl /\ [][NextEmail]_vars

\* ------------------------------------------------------------ ProxyManager
ProxyNames == {"p1", "p2"}
TorProxy == "127.0.0.1:9050"

\* Lines 86-88.
WithTor(list) == IF tor_available THEN Append(list, TorProxy) ELSE list

\* load_proxies, lines 71-90: the list is replaced by the lines of the file
\* or by the fetched list, or kept when the fetch fails; the rotation index
\* is left as it is.
load_proxies ==
    /\ \E loaded \in SeqsUpTo(ProxyNames, MaxProxies), fetched \in BOOLEAN :
         LET base == IF fetched THEN loaded ELSE proxies IN
         /\ Len(WithTor(base)) <= MaxProxies + 1
         /\ proxies' = WithTor(base)
    /\ UNCHANGED <<collectorVars, emailVars, processorVars, webVars,
                   tor_available, current_proxy_index, next_proxy>>

RECURSIVE Working(_, _)
Working(list, ok) ==
    IF list = <<>> THEN <<>>
    ELSE (IF ok[1] THEN <<Head(list)>> ELSE <<>>)
         \o Working(Tail(list), [i \in 1..(Len(list) - 1) |-> ok[i + 1]])

\* test_proxies, lines 947-972: the list is replaced by the proxies that
\* passed test_proxy, if any did.
test_proxies ==
    /\ proxies # <<>>
    /\ \E ok \in [1..Len(proxies) -> BOOLEAN] :
         LET working_proxies == Working(proxies, ok) IN
         proxies' = IF working_proxies # <<>> THEN working_proxies ELSE proxies
    /\ UNCHANGED <<collectorVars, emailVars, processorVars, webVars,
                   tor_available, current_proxy_index, next_proxy>>

\* get_next_proxy, lines 117-124.  Indexing past the end of the list raises
\* IndexError before the index is assigned.
get_next_proxy ==
    /\ IF proxies = <<>>
       THEN next_proxy' = "None" /\ UNCHANGED current_proxy_index
       ELSE IF current_proxy_index >= Len(proxies)
            THEN next_proxy' = "IndexError" /\ UNCHANGED current_proxy_index
            ELSE /\ next_proxy' = proxies[current_proxy_index + 1]
                 /\ current_proxy_index' = (current_proxy_index + 1) % Len(proxies)
    /\ UNCHANGED <<collectorVars, emailVars, processorVars, webVars,
                   tor_available, proxies>>

InitProxy ==
    /\ NoRun /\ EmailIdle /\ ProcessorIdle /\ WebIdle
    /\ tor_available \in BOOLEAN
    /\ ProxyFields

NextProxy ==
    \/ load_proxies
    \/ test_proxies
    \/ get_next_proxy

SpecProxy == InitProxy /\ [][NextProxy]_vars

\* ------------------------------------------- DataProcessor.run in detail
\* Line 52.
MaxAttempts == 3

\* The fields of data that the checks of lines 78-88 read, and phone.
Fields == {"name", "phone", "website", "instagram", "address"}

\* What extract_info_from_result (lines 99-173) returns: its defaults, or
\* the name and address the result list shows.
EntryInfos == {[name |-> "Unknown", address |-> NA],
               [name |-> "Acme", address |-> "1 A St"]}

\* data before line 76, and the None that extract_data returns at line 342.
NoneData == [none |-> TRUE]

Click(method, ok) == [method |-> method, ok |-> ok]

\* A DataProcessor about to run, outside any collection run.
InitProcessor ==
    /\ num_entries = 1
    /\ skip_missing_social \in BOOLEAN
    /\ api_key = FALSE
    /\ places = <<>>
    /\ source = <<>>
    /\ visible = 0
    /\ InitState /\ EmailIdle /\ ProxyInit /\ WebIdle
    /\ dp_pc = "start"
    /\ dp_entry_info = [name |-> "Unknown", address |-> NA]
    /\ dp_attempt = 0
    /\ dp_clicks = <<>>
    /\ dp_field_errors = {}
    /\ dp_data = NoneData
    /\ dp_signals = <<>>

\* Lines 45-49.
DataProcessor_begin ==
    /\ dp_pc = "start"
    /\ dp_entry_info' \in EntryInfos
    /\ dp_pc' = "attempt"
    /\ UNCHANGED <<collectorVars, emailVars, proxyVars, webVars, dp_attempt, dp_clicks,
                   dp_field_errors, dp_data, dp_signals>>

\* Lines 53-70 if the first attempt on which both clicks fail raised.
DataProcessor_attempt_NoRetry ==
    /\ dp_pc = "attempt"
    /\ \E regular \in BOOLEAN, script \in BOOLEAN :
         IF regular
         THEN /\ dp_clicks' = Append(dp_clicks, Click("click", TRUE))
              /\ dp_pc' = "extract"
              /\ UNCHANGED <<dp_attempt, dp_signals>>
         ELSE /\ dp_clicks' = dp_clicks \o <<Click("click", FALSE), Click("script", script)>>
              /\ IF script
                 THEN /\ dp_pc' = "extract"
                      /\ UNCHANGED <<dp_attempt, dp_signals>>
                 ELSE IF dp_attempt >= 0
                      THEN /\ dp_pc' = "returned"
                           /\ dp_signals' = Append(dp_signals, Msg("error", NoneData))
                           /\ UNCHANGED dp_attempt
                      ELSE /\ dp_attempt' = dp_attempt + 1
                           /\ UNCHANGED <<dp_pc, dp_signals>>
    /\ UNCHANGED <<collectorVars, emailVars, proxyVars, webVars, dp_entry_info, dp_field_errors,
                   dp_data>>

\* Lines 53-70: one iteration of "for attempt in range(max_attempts)".  The
\* exception raised at line 69 is caught at line 96 and reported at 97.
DataProcessor_attempt ==
    /\ dp_pc = "attempt"
    /\ \E regular \in BOOLEAN, script \in BOOLEAN :
         IF regular
         THEN /\ dp_clicks' = Append(dp_clicks, Click("click", TRUE))
              /\ dp_pc' = "extract"
              /\ UNCHANGED <<dp_attempt, dp_signals>>
         ELSE /\ dp_clicks' = dp_clicks \o <<Click("click", FALSE), Click("script", script)>>
              /\ IF script
                 THEN /\ dp_pc' = "extract"
                      /\ UNCHANGED <<dp_attempt, dp_signals>>
                 ELSE IF dp_attempt = MaxAttempts - 1
                      THEN /\ dp_pc' = "returned"
                           /\ dp_signals' = Append(dp_signals, Msg("error", NoneData))
                           /\ UNCHANGED dp_attempt
                      ELSE /\ dp_attempt' = dp_attempt + 1
                           /\ UNCHANGED <<dp_pc, dp_signals>>
    /\ UNCHANGED <<collectorVars, emailVars, proxyVars, webVars, dp_entry_info, dp_field_errors,
                   dp_data>>

\* extract_data, lines 175-342: a field whose lookups raise becomes "N/A"
\* (the handlers of 184-189, 199-204, 210-215, 227-228, 238-250); an
\* exception outside these makes the whole result None (340-342).
DataProcessor_extract_data ==
    /\ dp_pc = "extract"
    /\ \/ /\ dp_data' = NoneData
          /\ dp_field_errors' \in SUBSET {"name", "phone"}
       \/ \E errors \in SUBSET Fields, name \in {"Acme Ltd", "Results"} :
            /\ dp_field_errors' = errors
            /\ dp_data' = [name |-> IF "name" \in errors THEN NA ELSE name,
                           phone |-> IF "phone" \in errors THEN NA ELSE "555",
                           website |-> IF "website" \in errors THEN NA ELSE "url",
                           instagram |-> IF "instagram" \in errors THEN NA ELSE "@acme",
                           address |-> IF "address" \in errors THEN NA ELSE "2 B St"]
    /\ dp_pc' = "report"
    /\ UNCHANGED <<collectorVars, emailVars, proxyVars, webVars, dp_entry_info, dp_attempt,
                   dp_clicks, dp_signals>>

\* Lines 78-84.
WithEntryInfo(d, info) ==
    [d EXCEPT !.name = IF @ \in {NA, "Results", ""} THEN info.name ELSE @,
              !.address = IF @ \in {NA, ""} THEN info.address ELSE @]

\* Lines 78-95 if a falsy data were passed over in silence.
DataProcessor_report_SilentOnNone ==
    /\ dp_pc = "report"
    /\ IF dp_data = NoneData
       THEN UNCHANGED <<dp_data, dp_signals>>
       ELSE LET d == WithEntryInfo(dp_data, dp_entry_info) IN
            /\ dp_data' = d
            /\ dp_signals' =
                 Append(dp_signals,
                        Msg(IF skip_missing_social /\ d.website = NA /\ d.instagram = NA
                            THEN "skipped" ELSE "data_ready", d))
    /\ dp_pc' = "returned"
    /\ UNCHANGED <<collectorVars, emailVars, proxyVars, webVars, dp_entry_info, dp_attempt,
                   dp_clicks, dp_field_errors>>

\* Lines 78-95: the one signal of a run that got as far as extract_data.
DataProcessor_report ==
    /\ dp_pc = "report"
    /\ IF dp_data = NoneData
       THEN /\ dp_signals' = Append(dp_signals, Msg("error", NoneData))
            /\ UNCHANGED dp_data
       ELSE LET d == WithEntryInfo(dp_data, dp_entry_info) IN
            /\ dp_data' = d
            /\ dp_signals' =
                 Append(dp_signals,
                        Msg(IF skip_missing_social /\ d.website = NA /\ d.instagram = NA
                            THEN "skipped" ELSE "data_ready", d))
    /\ dp_pc' = "returned"
    /\ UNCHANGED <<collectorVars, emailVars, proxyVars, webVars, dp_entry_info, dp_attempt,
                   dp_clicks, dp_field_errors>>

NextProcessor ==
    \/ DataProcessor_begin
    \/ DataProcessor_attempt
    \/ DataProcessor_extract_data
    \/ DataProcessor_report

SpecProcessor == InitProcessor /\ [][NextProcessor]_vars

\* ---------------------------------------------------------- WebScrapeWorker
\* The sites that result pages can link to.
WebLinks == {"s1", "s2"}

\* A worker that start_web_scraping (main_window.py 1085-1127) has created
\* and started, with use_browser off.
InitWeb ==
    /\ NoRun /\ EmailIdle /\ ProxyInit /\ ProcessorIdle
    /\ web_pc = "start"
    /\ WebFields

\* _run_logic, lines 143-194: the parameters are read and, unless _stop is
\* set, one _fetch_serp_page per result page is submitted.
run_logic_begin ==
    /\ web_pc = "start"
    /\ IF web_stop
       THEN web_pc' = "logic_returned" /\ UNCHANGED serp_pc
       ELSE /\ web_pc' = "serp"
            /\ \E pages \in 1..MaxSerpPages : serp_pc' = [n \in 1..pages |-> "submitted"]
    /\ UNCHANGED <<collectorVars, emailVars, proxyVars, processorVars, web_stop,
                   web_paused, all_links, site_pc, web_terminal>>

\* run, lines 139-140: an exception of _run_logic (a parameter that cannot
\* be read, lines 143-151) is reported by finished_err.
run_logic_raises ==
    /\ web_pc = "start"
    /\ web_pc' = "returned"
    /\ web_terminal' = Append(web_terminal, "finished_err")
    /\ UNCHANGED <<collectorVars, emailVars, proxyVars, processorVars, web_stop,
                   web_paused, serp_pc, all_links, site_pc>>

\* _fetch_serp_page, lines 242-250: the task leaves the wait loop when the
\* run is not paused or is stopped, and returns [] when it is stopped.
fetch_serp_page_check ==
    /\ \E n \in DOMAIN serp_pc :
         /\ serp_pc[n] = "submitted"
         /\ ~web_paused \/ web_stop
         /\ serp_pc' = [serp_pc EXCEPT ![n] = IF web_stop THEN "done" ELSE "ready"]
    /\ UNCHANGED <<collectorVars, emailVars, proxyVars, processorVars, web_pc, web_stop,
                   web_paused, all_links, site_pc, web_terminal>>

\* _fetch_serp_page, lines 252-259: session.get, and the links of the page.
fetch_serp_page_get ==
    /\ \E n \in DOMAIN serp_pc, links \in SUBSET WebLinks :
         /\ serp_pc[n] = "ready"
         /\ serp_pc' = [serp_pc EXCEPT ![n] = "done"]
         /\ all_links' = all_links \cup links
    /\ UNCHANGED <<collectorVars, emailVars, proxyVars, processorVars, web_pc, web_stop,
                   web_paused, site_pc, web_terminal>>

\* _run_logic, lines 196-226: every result-page task has completed; with
\* _stop set the function returns (197-199, the executor's exit waits for
\* the tasks), otherwise one _process_site per distinct link is submitted.
run_logic_serp_done ==
    /\ web_pc = "serp"
    /\ \A n \in DOMAIN serp_pc : serp_pc[n] = "done"
    /\ IF web_stop
       THEN web_pc' = "logic_returned" /\ UNCHANGED site_pc
       ELSE web_pc' = "sites" /\ site_pc' = [u \in all_links |-> "submitted"]
    /\ UNCHANGED <<collectorVars, emailVars, proxyVars, processorVars, web_stop,
                   web_paused, serp_pc, all_links, web_terminal>>

\* _process_site, lines 54-63: the task leaves the wait loop when the run
\* is not paused or is stopped, and returns None when it is stopped.
process_site_check ==
    /\ \E u \in DOMAIN site_pc :
         /\ site_pc[u] = "submitted"
         /\ ~web_paused \/ web_stop
         /\ site_pc' = [site_pc EXCEPT ![u] = IF web_stop THEN "done" ELSE "ready"]
    /\ UNCHANGED <<collectorVars, emailVars, proxyVars, processorVars, web_pc, web_stop,
                   web_paused, serp_pc, all_links, web_terminal>>

\* _process_site, lines 65-122: fetch_url and what is made of the page.
process_site_fetch ==
    /\ \E u \in DOMAIN site_pc :
         /\ site_pc[u] = "ready"
         /\ site_pc' = [site_pc EXCEPT ![u] = "done"]
    /\ UNCHANGED <<collectorVars, emailVars, proxyVars, processorVars, web_pc, web_stop,
                   web_paused, serp_pc, all_links, web_terminal>>

\* _run_logic, lines 228-239: every site task has completed and the
\* function returns.
run_logic_sites_done ==
    /\ web_pc = "sites"
    /\ \A u \in DOMAIN site_pc : site_pc[u] = "done"
    /\ web_pc' = "logic_returned"
    /\ UNCHANGED <<collectorVars, emailVars, proxyVars, processorVars, web_stop,
                   web_paused, serp_pc, all_links, site_pc, web_terminal>>

\* run, lines 137-138: finished_ok is emitted unless _stop is set.
web_run_return ==
    /\ web_pc = "logic_returned"
    /\ web_pc' = "returned"
    /\ web_terminal' = IF web_stop THEN web_terminal ELSE Append(web_terminal, "finished_ok")
    /\ UNCHANGED <<collectorVars, emailVars, proxyVars, processorVars, web_stop,
                   web_paused, serp_pc, all_links, site_pc>>

\* WebScrapeWorker.stop, lines 41-42.
web_stop_call ==
    /\ web_pc # "returned"
    /\ ~web_stop
    /\ web_stop' = TRUE
    /\ UNCHANGED <<collectorVars, emailVars, proxyVars, processorVars, web_pc,
                   web_paused, serp_pc, all_links, site_pc, web_terminal>>

\* on_web_network_issue, main_window.py 1239-1249: pause() (lines 44-45).
\* resume() (47-48) has no caller in the program.
on_web_network_issue ==
    /\ web_pc # "returned"
    /\ ~web_paused
    /\ web_paused' = TRUE
    /\ UNCHANGED <<collectorVars, emailVars, proxyVars, processorVars, web_pc,
                   web_stop, serp_pc, all_links, site_pc, web_terminal>>

\* The thread of run and the threads of its two executors.
WebThreads ==
    \/ run_logic_begin
    \/ fetch_serp_page_check
    \/ fetch_serp_page_get
    \/ run_logic_serp_done
    \/ process_site_check
    \/ process_site_fetch
    \/ run_logic_sites_done
    \/ web_run_return

NextWeb ==
    \/ WebThreads
    \/ run_logic_raises
    \/ web_stop_call
    \/ on_web_network_issue
    \/ connection_up
    \/ connection_down

\* The threads of the web collector are scheduled fairly; the user, the
\* network and the parameters are under no obligation.
FairWebSpec == InitWeb /\ [][NextWeb]_vars /\ WF_vars(WebThreads)

\* --------------------------------------------------------------- the system
\* The pool runs the interaction, or the extraction, of one of its workers.
pool_click == \E i \in DOMAIN wpc : worker_click(i)

pool_extract == \E i \in DOMAIN wpc : worker_extract(i)

Next ==
    \/ run_start
    \/ collect_via_api_begin
    \/ collect_via_api_step
    \/ collect_via_api_end
    \/ run_setup
    \/ run_loop_check
    \/ run_pause_poll
    \/ run_body
    \/ run_body_error
    \/ run_wait
    \/ run_finish
    \/ pool_click
    \/ pool_extract
    \/ main_dispatch
    \/ connection_up
    \/ connection_down
    \/ stop

Spec == Init /\ [][Next]_vars

\* The same system started on a long list of incomplete candidates.
SpecDeep == InitDeep /\ [][Next]_vars

\* The threads of the program are scheduled fairly: the run thread, the pool
\* threads and the event loop of the main thread each take their next step
\* when they can.  The user and the network are under no obligation.
RunThread ==
    \/ run_start
    \/ collect_via_api_begin
    \/ collect_via_api_step
    \/ collect_via_api_end
    \/ run_setup
    \/ run_loop_check
    \/ run_pause_poll
    \/ run_body
    \/ run_wait
    \/ run_finish

PoolThreads == pool_click \/ pool_extract

FairSpec ==
    /\ InitSmall
    /\ [][Next]_vars
    /\ WF_vars(RunThread)
    /\ WF_vars(PoolThreads)
    /\ WF_vars(main_dispatch)

\* Only the run thread is scheduled fairly.
FairRunSpec ==
    /\ InitSmall
    /\ [][Next]_vars
    /\ WF_vars(RunThread)

\* ------------------------------------------------------------------ claims
RECURSIVE SumOver(_, _)
SumOver(f, S) ==
    IF S = {} THEN 0
    ELSE LET x == CHOOSE y \in S : TRUE IN f[x] + SumOver(f, S \ {x})

\* Number of data_collected signals emitted so far.
TotalEmitted == SumOver(data_collected, Records)

Complete(d) == d.website # NA \/ d.instagram # NA

DedupKey(d) == UniqueKey(clean_data_entry(d))

WorkersIdle == \A i \in DOMAIN wpc : wpc[i] \in {"none", "done"}

\* The run has ended and every queued call has been executed.
Settled == pc = "done" /\ queue = <<>> /\ WorkersIdle

CompleteListed == Cardinality({i \in 1..visible : Complete(source[i])})

\* C1: the number of accepted records emitted by a run (data_collected
\* signals, and collected_count, which counts them) never exceeds num_entries.
C1_QuotaRespected ==
    /\ TotalEmitted <= num_entries
    /\ collected_count <= num_entries

\* C2: processed_count never exceeds max_to_process = 5 * num_entries, the
\* budget never changes, and a batch in flight never takes the count past it.
C2_BudgetRespected ==
    /\ max_to_process = AttemptFactor * num_entries
    /\ processed_count <= max_to_process
    /\ processed_count + batch_size <= max_to_process

\* C2 witness: a run that has used up its whole attempt budget.
C2_Witness == processed_count = max_to_process /\ pc = "done"

\* C3: no two accepted records emitted in one run have the same dedup key,
\* and a record with an already admitted key is not counted toward the quota.
C3_NoDuplicateAccepted ==
    /\ \A d \in Records : data_collected[d] <= 1
    /\ \A d, e \in Records :
         (d # e /\ data_collected[d] > 0 /\ data_collected[e] > 0) => DedupKey(d) # DedupKey(e)
    /\ collected_count <= Cardinality(unique_entries)

\* C4: with skip_missing_social set, every accepted record (emitted, queued
\* for the caller or stored by it) has a website or an Instagram handle, a
\* skip notice is only ever raised for a record with neither, and each skip
\* notice is counted in skipped_count.
C4_AcceptedHaveSocial ==
    skip_missing_social =>
      /\ \A d \in Records : data_collected[d] > 0 => Complete(d)
      /\ \A k \in 1..Len(queue) :
           /\ queue[k].kind \in {"data_ready", "real_time_update"} => Complete(queue[k].data)
           /\ queue[k].kind = "skipped" => ~Complete(queue[k].data)
      /\ \A k \in 1..Len(collected_data) : Complete(collected_data[k])
      /\ entry_skipped = skipped_count

\* C4 witness: a browser run with the flag set that has skipped one
\* candidate and accepted another.
C4_Witness ==
    /\ skip_missing_social /\ ~api_key
    /\ skipped_count > 0 /\ collected_count > 0

\* C5: when connectivity returns and stays up in a run that is not
\* cancelled, the orchestrator eventually leaves its paused state for good,
\* and collected_count never decreases.
C5_ResumesAfterLoss ==
    /\ (<>[](connection_label = "Connected" /\ is_running)) => <>[](pc # "paused")
    /\ [][collected_count' >= collected_count]_vars

C7_ExactQuota ==
    (/\ Settled /\ ~api_key /\ is_running
     /\ terminal = <<"finished">>
     /\ visible >= num_entries
     /\ skipped_count = 0 /\ logged_errors = 0 /\ consecutive_errors = 0)
    => (collected_count = num_entries /\ processed_count = num_entries)

\* C8: with fewer complete candidates than the target, completeness
\* required and no failure, the run ends as finished having processed every
\* listed candidate, accepted the complete ones and skipped the others.
C8_ExhaustedCounts ==
    (/\ Settled /\ ~api_key /\ is_running /\ skip_missing_social
     /\ terminal = <<"finished">>
     /\ internet_connected
     /\ CompleteListed < num_entries
     /\ visible < max_to_process
     /\ logged_errors = 0 /\ consecutive_errors = 0)
    => (/\ processed_count = visible
        /\ collected_count = CompleteListed
        /\ skipped_count = visible - CompleteListed)

\* C9: a run ended by three consecutive batch errors reports error_occurred.
C9_FatalAfterThreeErrors ==
    (pc = "done" /\ consecutive_errors = ErrorLimit /\ processed_count = 0
     /\ collected_count = 0 /\ is_running)
    => terminal = <<"error_occurred">>

\* C10: the step of a batch cycle that fails changes the batch-error counter
\* and none of processed_count, collected_count, skipped_count; it starts no
\* worker and emits nothing.
C10_FailedBatchFrame ==
    [][(pc = "body" /\ consecutive_errors' # consecutive_errors) =>
          /\ consecutive_errors' = consecutive_errors + 1
          /\ UNCHANGED <<processed_count, collected_count, skipped_count>>
          /\ UNCHANGED <<wpc, queue, data_collected, entry_skipped>>]_vars

\* C10 witness: a batch cycle has failed after an earlier batch was
\* processed and accepted.
C10_Witness ==
    /\ consecutive_errors > 0
    /\ processed_count > 0 /\ collected_count > 0

\* Number of candidates handed to a worker so far.
Dispatched == Cardinality({i \in DOMAIN wpc : wpc[i] # "none"})

\* C11: when the report of a failed worker is handled, the failure is logged
\* and nothing else changes: the batch-error counter, the run's position and
\* flags and the three counts stay as they are, so the run goes on; and every
\* candidate handed to a worker, failed or not, is counted in processed_count
\* once its batch has been waited for.
C11_WorkerFailureTolerated ==
    /\ [](processed_count + batch_size = Dispatched)
    /\ [][(queue # <<>> /\ Head(queue).kind = "error" /\ queue' = Tail(queue)) =>
            /\ logged_errors' = logged_errors + 1
            /\ UNCHANGED <<consecutive_errors, pc, is_running, is_paused, terminal>>
            /\ UNCHANGED <<processed_count, collected_count, skipped_count>>]_vars

\* C11 witness: a failure has been logged, the failed candidate is counted
\* as processed, and a later candidate is with a worker.
C11_Witness ==
    /\ logged_errors > 0 /\ consecutive_errors = 0
    /\ processed_count > 0
    /\ \E i \in DOMAIN wpc : i > processed_count /\ wpc[i] = "queued"

\* The obfuscations the harvester is to tolerate: a spaced @, [@], and (at)
\* without or with blanks around it.
SupportedSeparators ==
    {<<" ", "@", " ">>, <<"[", "@", "]">>, <<"(", "a", "t", ")">>,
     <<" ", "(", "a", "t", ")", " ">>}

Canonical(l, d) == LowerStr(l \o <<"@">> \o d)

ValidDomain == <<"s", ".", "c", "o">>

\* C12: a call on a page whose text holds "jane (at) shop.com" returns
\* exactly {"jane@shop.com"}, and a page holding one address in any supported
\* obfuscation returns exactly that address as lowercase local@domain.
C12_ObfuscatedHarvested ==
    epc = "returned" =>
      /\ site[Root].text = ScenarioText =>
           extracted_emails = {<<"j", "a", "n", "e", "@", "s", "h", "o", "p", ".", "c", "o", "m">>}
      /\ \A pre \in Prefixes, l \in Locals, sep \in SupportedSeparators, post \in Suffixes :
           site[Root].text = pre \o l \o sep \o ValidDomain \o post =>
             extracted_emails = {Canonical(l, ValidDomain)}

\* C13: a run emits at most one terminal signal, finished or error_occurred,
\* has emitted exactly one when it has ended, and the message shown for it
\* names the accepted, the processed and the skipped count.
C13_OneTerminalWithCounts ==
    /\ Len(terminal) <= 1
    /\ \A k \in 1..Len(terminal) : terminal[k] \in {"finished", "error_occurred"}
    /\ (pc = "done") <=> (Len(terminal) = 1)
    /\ ~collector_thread =>
         /\ terminal_status.collected # Absent
         /\ terminal_status.processed # Absent
         /\ terminal_status.skipped # Absent

\* C14: once the run is stopped, no batch is dispatched and no worker that
\* has not begun its interaction begins it (a worker between two steps may
\* finish), and the run reaches its terminal state.
C14_StopHaltsWork ==
    /\ [][~is_running =>
            \A i \in DOMAIN wpc : wpc[i] \in {"none", "queued"} => wpc'[i] = wpc[i]]_vars
    /\ (~is_running ~> pc = "done")

\* C15: get_next_proxy never fails and the rotation index always points
\* into a non-empty pool; with an empty pool a call returns the no-change
\* value; with a pool of n proxies a call returns the proxy at the index and
\* advances the index by one modulo n.
C15_RoundRobinNeverFails ==
    /\ [](next_proxy # "IndexError")
    /\ [](proxies # <<>> => current_proxy_index \in 0..(Len(proxies) - 1))
    /\ [][(proxies = <<>> /\ next_proxy' # next_proxy) => next_proxy' = "None"]_vars
    /\ [][current_proxy_index' # current_proxy_index =>
            /\ next_proxy' = proxies[current_proxy_index + 1]
            /\ current_proxy_index' = (current_proxy_index + 1) % Len(proxies)]_vars

\* C16: one call of extract_emails requests at most max_pages pages, the
\* root included, requests no URL twice, and puts on its frontier only links
\* whose text, in lower case, contains a contact keyword.
C16_CrawlBounded ==
    /\ Len(requested) <= max_pages
    /\ Len(requested) + pages_left <= max_pages
    /\ \A m, n \in 1..Len(requested) : m # n => requested[m] # requested[n]
    /\ \A t \in frontier_texts :
         \E keyword \in contact_keywords : Contains(LowerStr(t), keyword)

\* C16 witness: the call returned with its page budget used up on two pages
\* while a link was still waiting on the frontier.
C16_Witness ==
    /\ epc = "returned"
    /\ max_pages = 2 /\ Len(requested) = 2
    /\ urls_to_visit # <<>>

\* C17: a batch cycle that completes without a batch-level error leaves the
\* batch-error counter at 0.
C17_CounterResetOnSuccess ==
    [][(pc = "wait" /\ pc' = "loop") => consecutive_errors' = 0]_vars

\* A worker whose batch the run has stopped waiting for and counted.
TimedOut(i) == i <= processed_count /\ wpc[i] \in {"queued", "clicked"}

\* C18: the wait for a batch ends whether or not every worker has reported,
\* and the whole batch is then counted as processed; a result that a worker
\* reports after that is discarded: it queues no call of the handlers that
\* accept or skip a record (every such call emits or counts, see
\* handle_data_ready and handle_entry_skipped).
C18_LateResultsDiscarded ==
    /\ [][(pc = "wait" /\ pc' # "wait") =>
            (pc' = "loop" /\ processed_count' = processed_count + batch_size)]_vars
    /\ [][\A i \in DOMAIN wpc :
            (TimedOut(i) /\ wpc'[i] = "done") =>
               (queue' = queue \/ queue'[Len(queue')].kind = "error")]_vars

\* Indices of the candidates of the batch that follows the processed ones.
BatchIndices(n) == (processed_count + 1)..(processed_count + n)

\* C19: a dispatched batch has size min(4, listed candidates beyond
\* processed_count, max_to_process - processed_count), which is at least 1;
\* all its workers are started in the dispatch, before the wait; and
\* processed_count changes only when the wait returns, by the batch size.
C19_BatchSizedStartedCounted ==
    /\ [](pc = "wait" =>
            /\ batch_size >= 1
            /\ \A i \in BatchIndices(batch_size) : i \in DOMAIN wpc /\ wpc[i] # "none")
    /\ [][(pc = "body" /\ pc' = "wait") =>
            /\ batch_size' = Min2(PoolWidth, Min2(visible' - processed_count,
                                                  max_to_process - processed_count))
            /\ batch_size' >= 1
            /\ \A i \in DOMAIN wpc :
                 wpc'[i] = IF i \in BatchIndices(batch_size') THEN "queued" ELSE wpc[i]
            /\ processed_count' = processed_count]_vars
    /\ [][processed_count' # processed_count =>
            /\ pc = "wait" /\ pc' = "loop"
            /\ processed_count' = processed_count + batch_size]_vars

\* C19 witness: after a batch of the full width of 4 was counted, a batch of
\* 1, the rest of the attempt budget, is being waited for although two
\* candidates are left.
C19_Witness ==
    /\ pc = "wait"
    /\ processed_count = PoolWidth /\ batch_size = 1
    /\ visible - processed_count = 2

\* C20: the candidates handed to workers so far are exactly the first ones
\* of the source list, without a gap, up to the end of the current batch, and
\* a candidate is handed to a worker only once.
C20_SourceOrder ==
    /\ []({i \in DOMAIN wpc : wpc[i] # "none"} = 1..(processed_count + batch_size))
    /\ [][\A i \in DOMAIN wpc :
            (wpc'[i] = "queued" /\ wpc[i] # "queued") => wpc[i] = "none"]_vars

\* C20 witness: after a first batch and a failed cycle, the second candidate
\* is dispatched in a batch of its own.
C20_Witness ==
    /\ pc = "wait"
    /\ processed_count = 1 /\ batch_size = 1
    /\ consecutive_errors > 0
    /\ wpc[2] = "queued"

\* C21: a loop cycle calls load_more_results at most once; a cycle that finds
\* every listed candidate processed and, without an exception, still has no
\* candidate beyond processed_count after the call or after its failure,
\* leaves the loop, and the run then emits finished as its only terminal
\* signal.
C21_OneAdvanceThenExhausted ==
    /\ [](load_more_calls <= 1)
    /\ [][(/\ pc = "body" /\ pc' # "body"
           /\ processed_count >= visible
           /\ consecutive_errors' = consecutive_errors
           /\ processed_count >= visible')
          => (pc' = "finish" /\ load_more_calls' = 1)]_vars
    /\ [][(pc = "finish" /\ pc' # "finish")
          => (pc' = "done" /\ terminal' = <<"finished">>)]_vars
    /\ (pc = "finish" ~> (pc = "done" /\ terminal = <<"finished">>))

\* C21 witness: one candidate was processed, the cycle after it made its one
\* load-more call, found nothing new and left the loop.
C21_Witness ==
    /\ pc = "finish"
    /\ load_more_calls = 1
    /\ processed_count = 1 /\ visible = 1

\* The browser source has not been started: no driver set up, no result
\* listed, no worker created.
BrowserUnused ==
    /\ pc \in {"init", "api", "api_loop", "done"}
    /\ \A i \in DOMAIN wpc : wpc[i] = "none"
    /\ processed_count = 0 /\ load_more_calls = 0

\* C22: with a key the API is asked first; when it returns a place the run
\* ends with finished without the browser source being started; without a
\* key, or when the API returns nothing, the run goes on to the browser
\* source; when no selector locates results there the run ends with
\* error_occurred and no worker was started.
C22_ApiFirstThenBrowser ==
    /\ []((api_key /\ places # <<>>)
            => (BrowserUnused /\ terminal \in {<<>>, <<"finished">>}))
    /\ ((api_key /\ places # <<>>) ~> (pc = "done" /\ terminal = <<"finished">>))
    /\ [][(pc = "init" /\ pc' # "init") => pc' = (IF api_key THEN "api" ELSE "setup")]_vars
    /\ [][(pc = "api" /\ pc' # "api")
          => pc' = (IF places = <<>> THEN "setup" ELSE "api_loop")]_vars
    /\ ((~api_key \/ places = <<>>) => <>(pc = "setup"))
    /\ [][(pc = "setup" /\ pc' = "done") => terminal' = <<"error_occurred">>]_vars
    /\ [](("error_occurred" \in {terminal[n] : n \in DOMAIN terminal})
            => (pc = "done" /\ \A i \in DOMAIN wpc : wpc[i] = "none"))

\* C22 witness: a run with a key whose API returned a place has ended with
\* that place collected.
C22_Witness ==
    /\ api_key /\ places # <<>>
    /\ pc = "done" /\ api_collected = 1
    /\ terminal = <<"finished">>

\* C23: a DataProcessor.run that has returned has emitted exactly one of
\* data_ready, skipped and error, whether it ended in the interaction, in
\* extract_data or after it; one that has not returned has emitted nothing.
C23_OneOutcomePerWorker ==
    /\ Len(dp_signals) = (IF dp_pc = "returned" THEN 1 ELSE 0)
    /\ \A n \in DOMAIN dp_signals : dp_signals[n].kind \in {"data_ready", "skipped", "error"}

\* C23 witness: extract_data returned None after a successful click and the
\* run reported it.
C23_Witness ==
    /\ dp_pc = "returned"
    /\ dp_clicks # <<>> /\ dp_clicks[Len(dp_clicks)].ok
    /\ dp_data = NoneData
    /\ dp_signals = <<Msg("error", NoneData)>>

\* C24: a DataProcessor makes at most MaxAttempts attempts; an attempt is the
\* regular click and, when that fails, the script click; no click follows a
\* successful one; the run reports an error from the interaction exactly
\* when both clicks failed on all MaxAttempts attempts; a field whose
\* extraction raised is "N/A" in the reported record (name and address then
\* take what the result list showed) and the record is still reported as
\* data_ready or skipped.
C24_ThreeAttemptsThenFailed ==
    LET n_clicks == Len(dp_clicks)
        failed_all == n_clicks = 2 * MaxAttempts /\ \A n \in 1..n_clicks : ~dp_clicks[n].ok
        activated == n_clicks > 0 /\ dp_clicks[n_clicks].ok
    IN
    /\ Cardinality({n \in 1..n_clicks : dp_clicks[n].method = "click"}) <= MaxAttempts
    /\ dp_attempt < MaxAttempts
    /\ \A n \in 1..n_clicks :
         /\ dp_clicks[n].method = "script" => (n > 1 /\ dp_clicks[n - 1] = Click("click", FALSE))
         /\ dp_clicks[n] = Click("click", FALSE) => (n < n_clicks /\ dp_clicks[n + 1].method = "script")
         /\ (dp_clicks[n].method = "click" /\ n > 1) => dp_clicks[n - 1] = Click("script", FALSE)
         /\ dp_clicks[n].ok => n = n_clicks
    /\ failed_all <=> (dp_pc = "returned" /\ ~activated)
    /\ failed_all => dp_signals = <<Msg("error", NoneData)>>
    /\ activated <=> dp_pc \in {"extract", "report", "returned"} /\ ~failed_all
    /\ (dp_pc = "returned" /\ dp_data # NoneData) =>
         /\ dp_signals[1].kind \in {"data_ready", "skipped"}
         /\ dp_signals[1].data = dp_data
         /\ "name" \in dp_field_errors => dp_data.name = dp_entry_info.name
         /\ "address" \in dp_field_errors => dp_data.address = dp_entry_info.address
         /\ "phone" \in dp_field_errors => dp_data.phone = NA
         /\ "website" \in dp_field_errors => dp_data.website = NA
         /\ "instagram" \in dp_field_errors => dp_data.instagram = NA

\* C24 witness: the script click of the third attempt activated the
\* candidate, the phone lookup raised, and the record was reported.
C24_Witness ==
    /\ dp_pc = "returned"
    /\ dp_attempt = MaxAttempts - 1
    /\ Len(dp_clicks) = 2 * MaxAttempts /\ dp_clicks[Len(dp_clicks)] = Click("script", TRUE)
    /\ dp_field_errors = {"phone"}
    /\ dp_signals[1].kind = "data_ready" /\ dp_signals[1].data.phone = NA

\* C25: whenever a worker extracts, the shared browser shows the detail view
\* that this worker's own click opened, and the record it reports is the
\* record of its own candidate.
C25_OwnDetailView ==
    [][\A i \in DOMAIN wpc :
         (wpc[i] = "clicked" /\ wpc'[i] = "done")
         => /\ driver_view = i
            /\ queue'[Len(queue')].kind \in {"data_ready", "skipped"}
                 => queue'[Len(queue')].data = source[i]]_vars

\* C26: a web run emits at most one terminal signal and eventually emits
\* one, stopped or not; once _stop is set, a site task that has not yet
\* passed the checks of lines 54-63 ends without calling fetch_url.
C26_WebRunOneTerminal ==
    /\ [](Len(web_terminal) <= 1)
    /\ <>(Len(web_terminal) = 1)
    /\ [][web_stop => \A u \in DOMAIN site_pc :
                        site_pc[u] = "submitted" => site_pc'[u] # "ready"]_vars

\* A task is in the wait loop of _process_site or _fetch_serp_page.
WaitingTask ==
    \/ \E n \in DOMAIN serp_pc : serp_pc[n] = "submitted"
    \/ \E u \in DOMAIN site_pc : site_pc[u] = "submitted"

\* C27: while the run is paused and not stopped, a task in its wait loop
\* stays there; when the run is paused with a task waiting and the
\* connection is back, the pause ends (unless the connection is lost again
\* or the run is stopped); with _stop set a waiting task returns without a
\* fetch.
C27_PauseHoldsAndResumes ==
    /\ [][(web_paused /\ ~web_stop) =>
            /\ \A n \in DOMAIN serp_pc : serp_pc[n] = "submitted" => serp_pc'[n] = "submitted"
            /\ \A u \in DOMAIN site_pc : site_pc[u] = "submitted" => site_pc'[u] = "submitted"]_vars
    /\ ((web_paused /\ WaitingTask /\ connection_label = "Connected")
          ~> (~web_paused \/ connection_label = "Disconnected" \/ web_stop))
    /\ [][web_stop =>
            /\ \A n \in DOMAIN serp_pc :
                 serp_pc[n] = "submitted" => serp_pc'[n] \in {"submitted", "done"}
            /\ \A u \in DOMAIN site_pc :
                 site_pc[u] = "submitted" => site_pc'[u] \in {"submitted", "done"}]_vars
    /\ ((web_stop /\ WaitingTask) ~> ~WaitingTask)

\* What is left of the attempt budget and of the tolerated batch errors.
LoopVariant == (max_to_process - processed_count) + (ErrorLimit - consecutive_errors)

\* C28: a cycle of the main loop that comes back to the loop test has
\* advanced processed_count or incremented the batch-error counter, neither
\* ever goes down or beyond its limit, and a run whose connectivity flag
\* stays up reaches its end with one terminal signal emitted.
C28_RunTerminates ==
    /\ [][(pc \in {"body", "wait"} /\ pc' # pc)
          => \/ pc' = "loop" /\ LoopVariant' < LoopVariant
             \/ pc' = "wait" /\ pc = "body" /\ batch_size' > 0
             \/ pc' = "finish"]_vars
    /\ [][/\ processed_count' >= processed_count
          /\ consecutive_errors' >= consecutive_errors]_vars
    /\ [](processed_count <= max_to_process /\ consecutive_errors <= ErrorLimit)
    /\ <>(~internet_connected \/ (pc = "done" /\ Len(terminal) = 1))

\* C28 witness: three failed cycles ended a run whose connectivity never
\* went down.
C28_Witness ==
    /\ pc = "done" /\ terminal = <<"finished">>
    /\ consecutive_errors = ErrorLimit
    /\ internet_connected /\ ~is_paused /\ is_running

\* The candidates whose worker has reported an error: the reports already
\* logged and those still on the event queue.
FailedSoFar == logged_errors + Cardinality({n \in DOMAIN queue : queue[n].kind = "error"})

\* C29: when waitForDone returns with every worker of the batch finished,
\* the counters already hold the outcome of every candidate processed so
\* far: processed_count = collected_count + skipped_count + the number of
\* failed candidates.
C29_CountersAtBoundary ==
    [][(pc = "wait" /\ pc' = "loop" /\ WorkersIdle)
       => processed_count' = collected_count + skipped_count + FailedSoFar]_vars

\* C30: once the terminal signal is emitted, no data_collected signal and no
\* skip notice is emitted any more, and collected_count and skipped_count
\* keep their values.
C30_QuietAfterTerminal ==
    [][terminal # <<>>
       => /\ data_collected' = data_collected
          /\ entry_skipped' = entry_skipped
          /\ collected_count' = collected_count
          /\ skipped_count' = skipped_count]_vars

====
